---- MODULE Spec2Model ----
(***************************************************************************)
(* Model of post-tweet.js: the agenda lookup / publish / consume protocol. *)
(*                                                                         *)
(* A run is one execution of the script (publicarHilo, line 100).  The     *)
(* agenda file agenda.yaml is shared by all runs.  A run's steps are split *)
(* at its file operations and at the awaited Publisher call, the only      *)
(* points where anything outside the run can be observed or can act.       *)
(***************************************************************************)
EXTENDS Integers, Sequences, FiniteSets, TLC

\* ---------------------------------------------------------------- bounds
MaxJobs == 3        \* longest jobs sequence of an initial agenda
MaxRuns == 2        \* number of runs of the script

\* ---------------------------------------------------------------- values
\* Calendar days the clock goes through, as new Date().toISOString()
\* .split('T')[0] renders them.
Days == <<"2024-01-01", "2024-01-02">>

Dates == {Days[i] : i \in 1..Len(Days)}

Concepts == {"A", "B"}

\* A YAML value found under a job's thread key: a sequence of strings, or a
\* scalar string (items are then its characters, so that Len is .length).
Threads ==
  { [kind |-> "seq", items |-> <<>>],
    [kind |-> "seq", items |-> <<"x">>],
    [kind |-> "seq", items |-> <<"y", "z">>],
    [kind |-> "str", items |-> <<"h", "i">>] }

Jobs == [date : Dates, concept : Concepts, thread : Threads]

\* The value of jobHoy when no job was found (null / undefined).
NoJob == [date |-> "", concept |-> "", thread |-> [kind |-> "none", items |-> <<>>]]

Runs == 1..MaxRuns

SeqsUpTo(S, n) == UNION {[1..k -> S] : k \in 0..n}

\* The agenda file: absent, zero-length, a mapping without a jobs key, text
\* that is not YAML, or a mapping whose jobs key holds a sequence of jobs.
File(kind, jobs) == [kind |-> kind, jobs |-> jobs]

AgendaFiles ==
  {File(k, <<>>) : k \in {"missing", "empty", "nojobs", "malformed"}}
    \cup {File("jobs", s) : s \in SeqsUpTo(Jobs, MaxJobs)}

VARIABLES
  file,         \* content of agenda.yaml
  clock,        \* index into Days of the current day
  pc,           \* pc[r]: position of run r
  hoy,          \* hoy[r]: the date string run r computed
  jobHoy,       \* jobHoy[r]: the job run r found, or NoJob
  data,         \* data[r]: data.jobs as re-read by removeJobFromAgenda
  pub,          \* pub[r]: state of run r's Publisher call
  calls,        \* calls[r]: arguments of run r's calls to tweetThread
  reads,        \* reads[r]: <<readFileSync calls in the lookup, in the cleanup>>
  writes,       \* writes[r]: writeFileSync calls of run r
  exit,         \* exit[r]: exit status of run r, -1 while it runs
  fileAtStart,  \* fileAtStart[r]: the agenda file when run r started
  published     \* jobs whose Publisher call succeeded, in order

vars == <<file, clock, pc, hoy, jobHoy, data, pub, calls, reads, writes, exit,
          fileAtStart, published>>

\* ---------------------------------------------------------------- js-yaml
\* A lookup without the existence check.
ExistsAlways(f) == TRUE

\* fs.existsSync(AGENDA_FILE)
ExistsSync(f) == f.kind # "missing"

\* readFileSync / yaml.load raise on an absent file and on text that is not YAML.
LoadThrows(f) == f.kind \in {"missing", "malformed"}

\* yaml.load(fs.readFileSync(AGENDA_FILE)): undefined for a zero-length file,
\* else the mapping, with or without its jobs key.
YamlLoad(f) ==
  CASE f.kind = "empty"  -> [isNull |-> TRUE,  hasJobs |-> FALSE, jobs |-> <<>>]
    [] f.kind = "nojobs" -> [isNull |-> FALSE, hasJobs |-> FALSE, jobs |-> <<>>]
    [] f.kind = "jobs"   -> [isNull |-> FALSE, hasJobs |-> TRUE,  jobs |-> f.jobs]

\* yaml.dump({ jobs: jobsPendientes }): a mapping with only a jobs key.
YamlDump(jobsPendientes) == File("jobs", jobsPendientes)

\* ---------------------------------------------------------------- helpers
\* Array.prototype.find with job => job.date === d: the first match or undefined.
Matches(jobs, d) == {i \in 1..Len(jobs) : jobs[i].date = d}

Min(S) == CHOOSE i \in S : \A k \in S : i <= k

\* A lookup that takes the first job whatever its date.
FindFirst(jobs, d) == IF Len(jobs) = 0 THEN NoJob ELSE jobs[1]

\* A lookup that takes the last job of the date.
Max(S) == CHOOSE i \in S : \A k \in S : i >= k

FindLast(jobs, d) ==
  IF Matches(jobs, d) = {} THEN NoJob ELSE jobs[Max(Matches(jobs, d))]

\* A lookup that passes over the jobs whose thread is not valid.
FindFirstValid(jobs, d) ==
  LET ok == {i \in Matches(jobs, d) :
               jobs[i].thread.kind = "seq" /\ Len(jobs[i].thread.items) > 0}
  IN  IF ok = {} THEN NoJob ELSE jobs[Min(ok)]

Find(jobs, d) ==
  IF Matches(jobs, d) = {} THEN NoJob ELSE jobs[Min(Matches(jobs, d))]

\* A filter that compares the date only.
KeepsOtherDates(job, jobPublicado) == ~(job.date = jobPublicado.date)

\* A filter that compares the concept only.
KeepsOtherConcepts(job, jobPublicado) == ~(job.concept = jobPublicado.concept)

\* The filter predicate of removeJobFromAgenda: the job is kept.
Keeps(job, jobPublicado) ==
  ~(job.date = jobPublicado.date /\ job.concept = jobPublicado.concept)

\* A removal that takes the head of the sequence, the agenda used as a queue.
DropsHead(jobs, jobPublicado) == IF Len(jobs) = 0 THEN jobs ELSE Tail(jobs)

\* A removal of the first entry with the pair only (findIndex and splice).
RemovesFirstMatch(jobs, jobPublicado) ==
  LET hits == {i \in 1..Len(jobs) : ~Keeps(jobs[i], jobPublicado)}
  IN  IF hits = {} THEN jobs
      ELSE [i \in 1..(Len(jobs) - 1) |-> IF i < Min(hits) THEN jobs[i] ELSE jobs[i + 1]]

\* data.jobs.filter(...)
JobsPendientes(jobs, jobPublicado) ==
  SelectSeq(jobs, LAMBDA job : Keeps(job, jobPublicado))

\* A validation that tests the length only.
EmptyThread(thread) == Len(thread.items) = 0

\* !Array.isArray(thread) || thread.length === 0
InvalidThread(thread) == thread.kind # "seq" \/ Len(thread.items) = 0

Terminal(r) == pc[r] \in {"Done", "Errored"}

\* Run r is in progress: launched, and neither ended nor killed.
Active(r) == pc[r] \notin {"Idle", "Done", "Errored", "Crashed"}

\* ---------------------------------------------------------------- initial state
Init ==
  /\ file \in AgendaFiles
  /\ clock = 1
  /\ pc = [r \in Runs |-> "Idle"]
  /\ hoy = [r \in Runs |-> ""]
  /\ jobHoy = [r \in Runs |-> NoJob]
  /\ data = [r \in Runs |-> <<>>]
  /\ pub = [r \in Runs |-> "none"]
  /\ calls = [r \in Runs |-> <<>>]
  /\ reads = [r \in Runs |-> <<0, 0>>]
  /\ writes = [r \in Runs |-> 0]
  /\ exit = [r \in Runs |-> -1]
  /\ fileAtStart = [r \in Runs |-> File("missing", <<>>)]
  /\ published = <<>>

\* ---------------------------------------------------------------- actions
\* The day changes.  The clock is read only when a run is launched (line 20),
\* so the day is let change between runs only.
Tick ==
  /\ clock < Len(Days)
  /\ \A q \in Runs : ~Active(q)
  /\ clock' = clock + 1
  /\ UNCHANGED <<file, pc, hoy, jobHoy, data, pub, calls, reads, writes, exit,
                 fileAtStart, published>>

\* The script is launched: publicarHilo() enters getJobParaHoy and computes hoy.
\* Runs are launched in the order of their numbers.
Launch(r) ==
  /\ pc[r] = "Idle"
  /\ \A q \in Runs : q < r => pc[q] # "Idle"
  /\ pc' = [pc EXCEPT ![r] = "Searching"]
  /\ hoy' = [hoy EXCEPT ![r] = Days[clock]]
  /\ fileAtStart' = [fileAtStart EXCEPT ![r] = file]
  /\ UNCHANGED <<file, clock, jobHoy, data, pub, calls, reads, writes, exit, published>>

\* The scheduler launches a run only when no other run is in progress.
Start(r) ==
  /\ \A q \in Runs : ~Active(q)
  /\ Launch(r)

\* A catch block that logs and lets the script end normally.
FailsWithoutExit(r) ==
  /\ pc' = [pc EXCEPT ![r] = "Errored"]
  /\ exit' = [exit EXCEPT ![r] = 0]

\* The run ends in the catch block: process.exit(1).
Fails(r) ==
  /\ pc' = [pc EXCEPT ![r] = "Errored"]
  /\ exit' = [exit EXCEPT ![r] = 1]

\* The run falls off the end of publicarHilo: exit status 0.
Finishes(r) ==
  /\ pc' = [pc EXCEPT ![r] = "Done"]
  /\ exit' = [exit EXCEPT ![r] = 0]

\* getJobParaHoy from the existence check on, then the validation of the job
\* found and the call of tweetThread.
Search(r) ==
  /\ pc[r] = "Searching"
  /\ UNCHANGED <<file, clock, hoy, data, writes, fileAtStart, published>>
  /\ IF ~ExistsSync(file)
       THEN /\ Finishes(r)
            /\ UNCHANGED <<jobHoy, pub, calls, reads>>
       ELSE /\ reads' = [reads EXCEPT ![r][1] = @ + 1]
            /\ IF LoadThrows(file)
                 THEN /\ Fails(r)
                      /\ UNCHANGED <<jobHoy, pub, calls>>
                 ELSE LET d == YamlLoad(file)
                          found == IF d.isNull \/ ~d.hasJobs \/ Len(d.jobs) = 0
                                     THEN NoJob
                                     ELSE Find(d.jobs, hoy[r])
                      IN  /\ jobHoy' = [jobHoy EXCEPT ![r] = found]
                          /\ IF found = NoJob
                               THEN /\ Finishes(r)
                                    /\ UNCHANGED <<pub, calls>>
                               ELSE IF InvalidThread(found.thread)
                                 THEN /\ Fails(r)
                                      /\ UNCHANGED <<pub, calls>>
                                 ELSE /\ pc' = [pc EXCEPT ![r] = "Publishing"]
                                      /\ pub' = [pub EXCEPT ![r] = "pending"]
                                      /\ calls' = [calls EXCEPT ![r] = Append(@, found.thread.items)]
                                      /\ UNCHANGED exit

\* A publish that takes the job out of the agenda in the same step.
PublishOKRemoving(r) ==
  /\ pc[r] = "Publishing"
  /\ pub' = [pub EXCEPT ![r] = "ok"]
  /\ published' = Append(published, jobHoy[r])
  /\ pc' = [pc EXCEPT ![r] = "Cleaning"]
  /\ file' = YamlDump(SelectSeq(file.jobs, LAMBDA job : job # jobHoy[r]))
  /\ UNCHANGED <<clock, hoy, jobHoy, data, calls, reads, writes, exit, fileAtStart>>

\* The awaited tweetThread call resolves: the run enters removeJobFromAgenda.
PublishOK(r) ==
  /\ pc[r] = "Publishing"
  /\ pub' = [pub EXCEPT ![r] = "ok"]
  /\ published' = Append(published, jobHoy[r])
  /\ pc' = [pc EXCEPT ![r] = "Cleaning"]
  /\ UNCHANGED <<file, clock, hoy, jobHoy, data, calls, reads, writes, exit, fileAtStart>>

\* A rejected call after which the cleanup runs all the same (the cleanup in a
\* finally block).
PublishFailThenCleans(r) ==
  /\ pc[r] = "Publishing"
  /\ pub' = [pub EXCEPT ![r] = "failed"]
  /\ pc' = [pc EXCEPT ![r] = "Cleaning"]
  /\ UNCHANGED <<file, clock, hoy, jobHoy, data, calls, reads, writes, exit, fileAtStart, published>>

\* The awaited tweetThread call rejects: the catch block ends the run.
PublishFail(r) ==
  /\ pc[r] = "Publishing"
  /\ pub' = [pub EXCEPT ![r] = "failed"]
  /\ Fails(r)
  /\ UNCHANGED <<file, clock, hoy, jobHoy, data, calls, reads, writes, fileAtStart, published>>

\* A removal that filters the jobs the lookup saw at the start of the run
\* instead of re-reading the file.
CleanFromLookup(r) ==
  /\ pc[r] = "Cleaning"
  /\ reads' = [reads EXCEPT ![r][2] = @ + 1]
  /\ data' = [data EXCEPT ![r] = fileAtStart[r].jobs]
  /\ pc' = [pc EXCEPT ![r] = "Writing"]
  /\ UNCHANGED <<file, clock, hoy, jobHoy, pub, calls, writes, exit, fileAtStart, published>>

\* removeJobFromAgenda re-reads the agenda.  data.jobs of undefined, or filter
\* of undefined, raises a TypeError as a failed read does.
CleanRead(r) ==
  /\ pc[r] = "Cleaning"
  /\ reads' = [reads EXCEPT ![r][2] = @ + 1]
  /\ UNCHANGED <<file, clock, hoy, jobHoy, pub, calls, writes, fileAtStart, published>>
  /\ IF LoadThrows(file) \/ YamlLoad(file).isNull \/ ~YamlLoad(file).hasJobs
       THEN /\ Fails(r)
            /\ UNCHANGED data
       ELSE /\ data' = [data EXCEPT ![r] = YamlLoad(file).jobs]
            /\ pc' = [pc EXCEPT ![r] = "Writing"]
            /\ UNCHANGED exit

\* A removal that filters and never writes the result back.
CleanWithoutWrite(r) ==
  /\ pc[r] = "Writing"
  /\ Finishes(r)
  /\ UNCHANGED <<file, clock, hoy, jobHoy, data, pub, calls, reads, writes, fileAtStart, published>>

\* A removal that writes the file only when the filter dropped an entry.
CleanWriteIfChanged(r) ==
  /\ pc[r] = "Writing"
  /\ IF JobsPendientes(data[r], jobHoy[r]) = data[r]
       THEN UNCHANGED <<file, writes>>
       ELSE /\ file' = YamlDump(JobsPendientes(data[r], jobHoy[r]))
            /\ writes' = [writes EXCEPT ![r] = @ + 1]
  /\ Finishes(r)
  /\ UNCHANGED <<clock, hoy, jobHoy, data, pub, calls, reads, fileAtStart, published>>

\* removeJobFromAgenda filters what it read and writes it back; the run ends.
CleanWrite(r) ==
  /\ pc[r] = "Writing"
  /\ file' = YamlDump(JobsPendientes(data[r], jobHoy[r]))
  /\ writes' = [writes EXCEPT ![r] = @ + 1]
  /\ Finishes(r)
  /\ UNCHANGED <<clock, hoy, jobHoy, data, pub, calls, reads, fileAtStart, published>>

\* writeFileSync raises: the open is refused and the file is untouched, or the
\* write fails after the open truncated the file.  The catch block ends the run.
CleanWriteFail(r) ==
  /\ pc[r] = "Writing"
  /\ file' \in {file, File("empty", <<>>)}
  /\ writes' = [writes EXCEPT ![r] = @ + 1]
  /\ Fails(r)
  /\ UNCHANGED <<clock, hoy, jobHoy, data, pub, calls, reads, fileAtStart, published>>

\* The process is killed after tweetThread resolved and before writeFileSync
\* (lines 81 to 57): nothing of the run is executed any more, the catch block
\* included.
Crash(r) ==
  /\ pc[r] \in {"Cleaning", "Writing"}
  /\ pc' = [pc EXCEPT ![r] = "Crashed"]
  /\ UNCHANGED <<file, clock, hoy, jobHoy, data, pub, calls, reads, writes, exit,
                 fileAtStart, published>>

\* The jobs somebody may append to the agenda by hand.
AppendedJobs ==
  {j \in Jobs : j.thread = [kind |-> "seq", items |-> <<"x">>]}

\* The agenda file is edited from outside while a run is between its lookup
\* (line 28) and the re-read of removeJobFromAgenda (line 44): a job is
\* appended or an entry is deleted.  One edit in the window of a run.
ExternalEdit ==
  /\ file.kind = "jobs"
  /\ \E r \in Runs : pc[r] \in {"Publishing", "Cleaning"} /\ file = fileAtStart[r]
  /\ \/ /\ Len(file.jobs) < MaxJobs
        /\ \E j \in AppendedJobs : file' = File("jobs", Append(file.jobs, j))
     \/ \E i \in 1..Len(file.jobs) :
          file' = File("jobs", [k \in 1..(Len(file.jobs) - 1) |->
                                 IF k < i THEN file.jobs[k] ELSE file.jobs[k + 1]])
  /\ UNCHANGED <<clock, pc, hoy, jobHoy, data, pub, calls, reads, writes, exit,
                 fileAtStart, published>>

\* ---------------------------------------------------------------- specification
\* Runs that do not overlap, over storage that does not fail.
Next ==
  \/ Tick
  \/ \E r \in Runs :
       \/ Start(r)
       \/ Search(r)
       \/ PublishOK(r)
       \/ PublishFail(r)
       \/ CleanRead(r)
       \/ CleanWrite(r)

Spec == Init /\ [][Next]_vars

\* Runs that do not overlap, over storage whose writes may fail.
NextFault ==
  \/ Tick
  \/ \E r \in Runs :
       \/ Start(r)
       \/ Search(r)
       \/ PublishOK(r)
       \/ PublishFail(r)
       \/ CleanRead(r)
       \/ CleanWrite(r)
       \/ CleanWriteFail(r)

SpecFault == Init /\ [][NextFault]_vars

\* removeJobFromAgenda alone: every run was launched on the same agenda, found
\* the same valid job for the same day and had it published, and is about to
\* enter removeJobFromAgenda.
InitRemove ==
  /\ file \in {File("jobs", s) : s \in SeqsUpTo(Jobs, MaxJobs)}
  /\ clock \in 1..Len(Days)
  /\ \E i \in 1..Len(file.jobs) :
       /\ file.jobs[i].date = Days[clock]
       /\ \A k \in 1..(i - 1) : file.jobs[k].date # Days[clock]
       /\ file.jobs[i].thread.kind = "seq"
       /\ file.jobs[i].thread.items # <<>>
       /\ jobHoy = [r \in Runs |-> file.jobs[i]]
       /\ calls = [r \in Runs |-> <<file.jobs[i].thread.items>>]
       /\ published = [r \in Runs |-> file.jobs[i]]
  /\ pc = [r \in Runs |-> "Cleaning"]
  /\ hoy = [r \in Runs |-> Days[clock]]
  /\ data = [r \in Runs |-> <<>>]
  /\ pub = [r \in Runs |-> "ok"]
  /\ reads = [r \in Runs |-> <<1, 0>>]
  /\ writes = [r \in Runs |-> 0]
  /\ exit = [r \in Runs |-> -1]
  /\ fileAtStart = [r \in Runs |-> file]

NextRemove ==
  \E r \in Runs :
    \/ CleanRead(r)
    \/ CleanWrite(r)

SpecRemove == InitRemove /\ [][NextRemove]_vars

\* Runs that do not overlap and may be killed between the publish and the write.
NextCrash ==
  \/ Tick
  \/ \E r \in Runs :
       \/ Start(r)
       \/ Search(r)
       \/ PublishOK(r)
       \/ PublishFail(r)
       \/ CleanRead(r)
       \/ CleanWrite(r)
       \/ Crash(r)

SpecCrash == Init /\ [][NextCrash]_vars

\* One run, over an agenda file that is edited from outside between the run's
\* lookup and its re-read.
NextEdit ==
  \/ Tick
  \/ ExternalEdit
  \/ Start(1)
  \/ Search(1)
  \/ PublishOK(1)
  \/ PublishFail(1)
  \/ CleanRead(1)
  \/ CleanWrite(1)

SpecEdit == Init /\ [][NextEdit]_vars

\* The two runs that the scheduler lets overlap.
Overlapping == {1, 2}

\* Two runs of the same day launched with no regard for one another: their
\* steps interleave, each file read and each file write being one step.
NextOverlap ==
  \E r \in Overlapping :
    \/ Launch(r)
    \/ Search(r)
    \/ PublishOK(r)
    \/ PublishFail(r)
    \/ CleanRead(r)
    \/ CleanWrite(r)

SpecOverlap == Init /\ [][NextOverlap]_vars

TypeOK ==
  /\ file \in AgendaFiles
  /\ clock \in 1..Len(Days)
  /\ pc \in [Runs -> {"Idle", "Searching", "Publishing", "Cleaning", "Writing", "Done", "Errored", "Crashed"}]
  /\ \A r \in Runs : jobHoy[r] \in Jobs \cup {NoJob}
  /\ pub \in [Runs -> {"none", "pending", "ok", "failed"}]
  /\ exit \in [Runs -> {-1, 0, 1}]

\* ---------------------------------------------------------------- properties
\* Run r has ended and no later run has been launched: the agenda file is as
\* run r left it.
LastFinished(r) ==
  /\ pc[r] \in {"Done", "Errored"}
  /\ \A q \in Runs : q > r => pc[q] = "Idle"

SamePair(j, k) == j.date = k.date /\ j.concept = k.concept

\* The positions of s whose entry has not the pair of job.
OtherPositions(s, job) == {i \in 1..Len(s) : ~SamePair(s[i], job)}

\* t is s without the entries that have the pair of job, the others in their order.
IsWithoutPair(t, s, job) ==
  /\ Len(t) = Cardinality(OtherPositions(s, job))
  /\ \A i \in OtherPositions(s, job) :
       t[Cardinality({m \in OtherPositions(s, job) : m <= i})] = s[i]

\* C1: when the Publisher call of a run fails, the run ends Errored with a
\* non-zero exit status, removeJobFromAgenda is never executed and the agenda
\* file after the run is the agenda file before it.
PublishFailureLeavesAgenda ==
  \A r \in Runs : pub[r] = "failed" =>
    /\ pc[r] = "Errored"
    /\ exit[r] > 0
    /\ writes[r] = 0
    /\ reads[r][2] = 0
    /\ LastFinished(r) => file = fileAtStart[r]

PublishFailureSeen ==
  \E r \in Runs : /\ pub[r] = "failed"
                  /\ pc[r] = "Errored"
                  /\ Len(fileAtStart[r].jobs) >= 2

\* C2: after a run that published today's job, the agenda has no entry with the
\* published job's (date, concept) pair, and every other entry of the agenda
\* before the run is still there, unchanged and in its original relative order.
PublishedJobRemoved ==
  \A r \in Runs : (LastFinished(r) /\ pub[r] = "ok") =>
    /\ file.kind = "jobs"
    /\ \A i \in 1..Len(file.jobs) : ~SamePair(file.jobs[i], jobHoy[r])
    /\ IsWithoutPair(file.jobs, fileAtStart[r].jobs, jobHoy[r])

\* The published job was not the first of the agenda and another job of the
\* same date stays.
PublishedJobRemovedSeen ==
  \E r \in Runs :
    /\ LastFinished(r) /\ pub[r] = "ok"
    /\ Len(fileAtStart[r].jobs) = 3
    /\ SamePair(fileAtStart[r].jobs[2], jobHoy[r])
    /\ Len(file.jobs) = 2
    /\ file.jobs[2].date = jobHoy[r].date

\* C3: a run reads or writes the agenda in removeJobFromAgenda only once its own
\* Publisher call has returned success: never before the call, while it is
\* pending, or after it failed.
RemovalOnlyAfterPublish ==
  [][\A r \in Runs :
       (writes'[r] # writes[r] \/ reads'[r][2] # reads[r][2] \/ (file' # file /\ pc'[r] # pc[r]))
          => (pub[r] = "ok" /\ pub'[r] = "ok")]_vars

RemovalSeen ==
  \E r \in Runs : writes[r] = 1 /\ pub[r] = "ok" /\ file # fileAtStart[r]

\* C4: when no job of the agenda is dated today (the file missing, empty,
\* without a jobs key, or with no job of that date), the lookup returns absent,
\* the run ends Done with exit status 0, never calls the Publisher and leaves
\* the agenda file unchanged.
NoJobToday(f, d) ==
  \/ f.kind \in {"missing", "empty", "nojobs"}
  \/ f.kind = "jobs" /\ \A i \in 1..Len(f.jobs) : f.jobs[i].date # d

NoJobRunIsNoOp ==
  \A r \in Runs :
    (pc[r] \notin {"Idle", "Searching"} /\ NoJobToday(fileAtStart[r], hoy[r])) =>
      /\ jobHoy[r] = NoJob
      /\ pc[r] = "Done"
      /\ exit[r] = 0
      /\ calls[r] = <<>>
      /\ pub[r] = "none"
      /\ writes[r] = 0
      /\ LastFinished(r) => file = fileAtStart[r]

NoJobRunSeen ==
  \E r \in Runs :
    /\ pc[r] = "Done"
    /\ fileAtStart[r].kind = "jobs"
    /\ Len(fileAtStart[r].jobs) >= 2
    /\ NoJobToday(fileAtStart[r], hoy[r])

\* C5: when the job found for today has a thread that is empty or is not a
\* sequence, the run ends Errored with a non-zero exit status, the Publisher is
\* never called and the agenda file is unchanged.
InvalidThreadFailsBeforePublish ==
  \A r \in Runs :
    (jobHoy[r] # NoJob /\ (jobHoy[r].thread.kind # "seq" \/ jobHoy[r].thread.items = <<>>)) =>
      /\ pc[r] = "Errored"
      /\ exit[r] > 0
      /\ calls[r] = <<>>
      /\ pub[r] = "none"
      /\ writes[r] = 0
      /\ reads[r][2] = 0
      /\ LastFinished(r) => file = fileAtStart[r]

\* A scalar thread, which has a length, is rejected.
InvalidThreadSeen ==
  \E r \in Runs : /\ jobHoy[r] # NoJob
                  /\ jobHoy[r].thread.kind = "str"
                  /\ pc[r] = "Errored"

\* C6: the exit status after a confirmed publish is always 0: a failure of the
\* cleanup is only logged, the run never enters Errored from the cleanup.
CleanupFailureKeepsExitZero ==
  \A r \in Runs : pub[r] = "ok" => (pc[r] # "Errored" /\ exit[r] <= 0)

\* C7: removeJobFromAgenda for a job whose pair is not in the stored agenda does
\* not raise and leaves the stored jobs unchanged, and a removal applied to the
\* result of a removal of the same job changes nothing.
RemoveAbsentAction ==
  \A r \in Runs :
    (writes'[r] # writes[r] /\ data[r] = file.jobs
       /\ (\/ \A i \in 1..Len(file.jobs) : ~SamePair(file.jobs[i], jobHoy[r])
           \/ \E q \in Runs : q # r /\ pc[q] = "Done"))
      => (file'.kind = "jobs" /\ file'.jobs = file.jobs /\ pc'[r] = "Done")

RemoveAbsentIsNoOp ==
  /\ [](\A r \in Runs : pc[r] # "Errored")
  /\ [][RemoveAbsentAction]_vars

\* A run read an agenda from which another run had removed the job, and wrote.
RemoveAbsentSeen ==
  \E r \in Runs :
    /\ pc[r] = "Done" /\ writes[r] = 1
    /\ Len(data[r]) >= 1
    /\ \A i \in 1..Len(data[r]) : ~SamePair(data[r][i], jobHoy[r])
    /\ file.jobs = data[r]

\* The first job of agenda file f dated d, as the lookup is specified.
HasJobToday(f, d) == f.kind = "jobs" /\ \E i \in 1..Len(f.jobs) : f.jobs[i].date = d

FirstToday(f, d) ==
  f.jobs[CHOOSE i \in 1..Len(f.jobs) :
           f.jobs[i].date = d /\ \A k \in 1..(i - 1) : f.jobs[k].date # d]

ValidJobToday(f, d) ==
  /\ HasJobToday(f, d)
  /\ FirstToday(f, d).thread.kind = "seq"
  /\ FirstToday(f, d).thread.items # <<>>

\* What C8 says of the Publisher calls and of the cleanup's read+write pair.
OnePublisherCall(r) ==
  /\ Len(calls[r]) <= 1
  /\ reads[r][2] <= 1
  /\ writes[r] <= 1
  /\ pc[r] \in {"Done", "Errored"} =>
       /\ Len(calls[r]) = 1 <=> ValidJobToday(fileAtStart[r], hoy[r])
       /\ Len(calls[r]) = 1 => calls[r][1] = FirstToday(fileAtStart[r], hoy[r]).thread.items
       /\ writes[r] = reads[r][2]

\* C8 as stated: at most one Publisher call, exactly one if and only if a job
\* for today is found and valid, its argument that job's thread; exactly one
\* agenda read in Searching and at most one read+write pair in Cleaning.
OneCallOneSearchRead ==
  \A r \in Runs :
    /\ OnePublisherCall(r)
    /\ pc[r] \in {"Done", "Errored"} => reads[r][1] = 1

\* C8 amended: the lookup reads the agenda exactly once when the file exists
\* and not at all when it is missing.
OneCallOneSearchReadIfExists ==
  \A r \in Runs :
    /\ OnePublisherCall(r)
    /\ pc[r] \in {"Done", "Errored"} =>
         reads[r][1] = (IF fileAtStart[r].kind = "missing" THEN 0 ELSE 1)

OneCallSeen ==
  /\ \E r \in Runs : /\ pc[r] = "Done" /\ Len(calls[r]) = 1
                     /\ calls[r][1] = <<"y", "z">>
                     /\ reads[r] = <<1, 1>> /\ writes[r] = 1
  /\ \E r \in Runs : pc[r] = "Done" /\ calls[r] = <<>> /\ reads[r] = <<1, 0>>

\* The number of entries of s with the pair of job.
PairCount(s, job) == Cardinality({i \in 1..Len(s) : SamePair(s[i], job)})

\* C9 as stated: a successful run removes at most one job.
AtMostOneJobRemoved ==
  \A r \in Runs : (LastFinished(r) /\ pub[r] = "ok") =>
    Len(file.jobs) >= Len(fileAtStart[r].jobs) - 1

\* C9 amended: a successful run removes every entry that has the published
\* job's (date, concept) pair, at least one; it removes exactly one when no
\* other entry of the agenda has that pair.
AllJobsWithPairRemoved ==
  \A r \in Runs : (LastFinished(r) /\ pub[r] = "ok") =>
    /\ PairCount(fileAtStart[r].jobs, jobHoy[r]) >= 1
    /\ Len(file.jobs) = Len(fileAtStart[r].jobs) - PairCount(fileAtStart[r].jobs, jobHoy[r])

\* Two entries with the pair, of different threads, both removed, one published.
TwoJobsRemovedSeen ==
  \E r \in Runs :
    /\ LastFinished(r) /\ pub[r] = "ok"
    /\ Len(fileAtStart[r].jobs) = 3 /\ Len(file.jobs) = 1
    /\ \E i \in 1..3 : /\ SamePair(fileAtStart[r].jobs[i], jobHoy[r])
                       /\ fileAtStart[r].jobs[i] # jobHoy[r]

\* C10: over runs that do not overlap, no entry is published twice, and once no
\* run is in progress every published entry is out of the agenda.
ExactlyOncePublication ==
  /\ \A i, k \in 1..Len(published) : i # k => ~SamePair(published[i], published[k])
  /\ (\A r \in Runs : pc[r] \in {"Idle", "Done", "Errored"}) =>
       \A i \in 1..Len(published) :
         file.kind = "jobs" /\ \A m \in 1..Len(file.jobs) : ~SamePair(file.jobs[m], published[i])

\* Two runs of the same day each published a job.
TwoPublicationsSeen ==
  /\ Len(published) = 2
  /\ published[1].date = published[2].date
  /\ \A r \in Runs : pc[r] = "Done"

\* C11: when a run is killed after its Publisher call succeeded and before it
\* wrote the agenda, the job is still in the agenda, which is as the run found
\* it, and the next run of the same date finds the same job and calls the
\* Publisher with its thread again.
CrashLeavesJobForNextRun ==
  \A r \in Runs : pc[r] = "Crashed" =>
    /\ pub[r] = "ok"
    /\ writes[r] = 0
    /\ (\A q \in Runs : q > r => pc[q] = "Idle") =>
         /\ file = fileAtStart[r]
         /\ \E i \in 1..Len(file.jobs) : file.jobs[i] = jobHoy[r]
    /\ \A q \in Runs :
         (q = r + 1 /\ hoy[q] = hoy[r] /\ pc[q] \notin {"Idle", "Searching"}) =>
           /\ jobHoy[q] = jobHoy[r]
           /\ calls[q] = <<jobHoy[r].thread.items>>

\* The same job was published by the killed run and by the next one.
DuplicatePublishSeen ==
  \E r \in Runs :
    /\ pc[r] = "Crashed"
    /\ r + 1 \in Runs
    /\ pub[r + 1] = "ok"
    /\ published = <<jobHoy[r], jobHoy[r]>>

\* The state of the run's state machine that position p belongs to: the
\* re-read and the write-back are both in Cleaning.
StateOf(p) == IF p = "Writing" THEN "Cleaning" ELSE p

Transitions ==
  { <<"Idle", "Searching">>,
    <<"Searching", "Publishing">>, <<"Searching", "Done">>, <<"Searching", "Errored">>,
    <<"Publishing", "Cleaning">>, <<"Publishing", "Errored">>,
    <<"Cleaning", "Cleaning">>, <<"Cleaning", "Done">> }

\* C12: a run goes through its states only in the order Idle, Searching,
\* Publishing, Cleaning, Done; it enters Errored only from Searching (the
\* lookup or the validation) or from Publishing; and it does nothing after it
\* reached Done or Errored.
RunFollowsStateMachine ==
  [][\A r \in Runs :
       /\ pc'[r] # pc[r] => <<StateOf(pc[r]), StateOf(pc'[r])>> \in Transitions
       /\ pc[r] \in {"Done", "Errored"} =>
            /\ pc'[r] = pc[r] /\ exit'[r] = exit[r]
            /\ calls'[r] = calls[r] /\ reads'[r] = reads[r] /\ writes'[r] = writes[r]]_vars

\* C13: getJobParaHoy never writes the agenda file; over an agenda with a jobs
\* sequence it returns the first entry, in agenda order, whose date is today's
\* date string, and absent if and only if no entry has that date.
LookupStep(r) == pc[r] = "Searching" /\ pc'[r] # "Searching"

LookupReturnsFirstOfToday ==
  [][\A r \in Runs : LookupStep(r) =>
       /\ file' = file
       /\ writes' = writes
       /\ file.kind = "jobs" =>
            /\ HasJobToday(file, hoy[r]) => jobHoy'[r] = FirstToday(file, hoy[r])
            /\ ~HasJobToday(file, hoy[r]) => jobHoy'[r] = NoJob
            /\ jobHoy'[r] = NoJob => ~HasJobToday(file, hoy[r])]_vars

\* Two different entries have today's date and the lookup returned the first.
FirstOfSeveralSeen ==
  \E r \in Runs :
    /\ pc[r] \notin {"Idle", "Searching"}
    /\ Len(fileAtStart[r].jobs) = 3
    /\ fileAtStart[r].jobs[1].date # hoy[r]
    /\ fileAtStart[r].jobs[2].date = hoy[r]
    /\ fileAtStart[r].jobs[3].date = hoy[r]
    /\ fileAtStart[r].jobs[3] # fileAtStart[r].jobs[2]
    /\ jobHoy[r] = fileAtStart[r].jobs[2]

\* C14: removeJobFromAgenda writes the agenda it re-read, not the one the lookup
\* read, without the entries that have the published job's pair: an outside
\* edit made between the lookup and the re-read is in the written file.
WrittenFromReread ==
  \A r \in Runs : (pc[r] = "Done" /\ writes[r] = 1) =>
    /\ file.kind = "jobs"
    /\ IsWithoutPair(file.jobs, data[r], jobHoy[r])
    /\ \A i \in 1..Len(file.jobs) : ~SamePair(file.jobs[i], jobHoy[r])

EditReachesRereadAction ==
  \A r \in Runs : (pc[r] = "Cleaning" /\ pc'[r] = "Writing") => data'[r] = file.jobs

ExternalEditPreserved ==
  /\ []WrittenFromReread
  /\ [][EditReachesRereadAction]_vars

\* A job appended from outside during the run is in the agenda after it, and
\* an entry of the published job's pair is not.
ExternalEditSeen ==
  \E r \in Runs :
    /\ pc[r] = "Done" /\ writes[r] = 1
    /\ Len(data[r]) = Len(fileAtStart[r].jobs) + 1
    /\ Len(file.jobs) = Len(fileAtStart[r].jobs)
    /\ Len(file.jobs) >= 2
    /\ file.jobs[Len(file.jobs)] = data[r][Len(data[r])]

\* The write-back step of run r's cleanup, and whether its filter drops nothing.
WriteBackStep(r) == pc[r] = "Writing" /\ pc'[r] # "Writing"

NothingToRemove(r) == \A i \in 1..Len(data[r]) : ~SamePair(data[r][i], jobHoy[r])

\* C15 as stated: the agenda file is written only when a removal occurs: when
\* the filtered sequence equals the sequence just re-read, no write is made.
NoWriteWithoutRemoval ==
  [][\A r \in Runs : (WriteBackStep(r) /\ NothingToRemove(r)) => writes'[r] = writes[r]]_vars

\* C15 amended: every cleanup that re-read the agenda writes the file exactly
\* once, also when no entry has the published job's pair; the jobs written are
\* then the jobs re-read.
AlwaysWritesBack ==
  [][\A r \in Runs : WriteBackStep(r) =>
       /\ writes'[r] = writes[r] + 1
       /\ file'.kind = "jobs"
       /\ NothingToRemove(r) => file'.jobs = data[r]]_vars

\* A cleanup with nothing to remove has written the file.
WriteWithoutRemovalSeen ==
  \E r \in Runs : /\ pc[r] = "Done"
                  /\ NothingToRemove(r)
                  /\ writes[r] = 1
                  /\ \E q \in Runs : q # r /\ writes[q] = 1 /\ data[q] # data[r]

\* Job j has the pair of a job that one of the two runs published.
PublishedByEither(j) ==
  \E r \in Overlapping : pub[r] = "ok" /\ SamePair(j, jobHoy[r])

\* The positions of s whose entry neither run published.
UnpublishedPositions(s) == {i \in 1..Len(s) : ~PublishedByEither(s[i])}

\* C16: after two overlapping runs have both finished, the agenda has no entry
\* with a pair that either run published, and every entry of the initial
\* agenda without such a pair is there, in its original relative order.
NoLostUpdate ==
  (\A r \in Overlapping : pc[r] \in {"Done", "Errored"}) =>
    /\ \A i \in 1..Len(file.jobs) : ~PublishedByEither(file.jobs[i])
    /\ Len(file.jobs) = Cardinality(UnpublishedPositions(fileAtStart[1].jobs))
    /\ \A i \in UnpublishedPositions(fileAtStart[1].jobs) :
         file.jobs[Cardinality({m \in UnpublishedPositions(fileAtStart[1].jobs) : m <= i})]
           = fileAtStart[1].jobs[i]

\* Both runs published the same job, each re-read the agenda before the other
\* wrote it, and two entries are left.
OverlapSeen ==
  /\ \A r \in Overlapping : pc[r] = "Done" /\ writes[r] = 1
  /\ published = <<jobHoy[1], jobHoy[2]>>
  /\ jobHoy[1] = jobHoy[2]
  /\ data[1] = fileAtStart[1].jobs
  /\ data[2] = fileAtStart[1].jobs
  /\ Len(file.jobs) = 2

\* The entries of s that are not dated d, and those that are, in their order.
NotDated(s, d) == SelectSeq(s, LAMBDA j : j.date # d)

Dated(s, d) == SelectSeq(s, LAMBDA j : j.date = d)

\* C17: a run passes to the Publisher and removes only entries dated its own
\* today: every entry of another date is never published and is in the agenda,
\* unchanged, after the run; an entry whose date has passed stays in the
\* agenda across all later runs.
OnlyTodayState ==
  /\ \A r \in Runs : jobHoy[r] # NoJob => jobHoy[r].date = hoy[r]
  /\ \A r \in Runs : \A k \in 1..Len(calls[r]) : calls[r][k] = jobHoy[r].thread.items
  /\ \A i \in 1..Len(published) :
       \E r \in Runs : published[i] = jobHoy[r] /\ published[i].date = hoy[r]
  /\ \A r \in Runs : LastFinished(r) =>
       /\ file.kind = fileAtStart[r].kind \/ fileAtStart[r].kind = "jobs"
       /\ NotDated(file.jobs, hoy[r]) = NotDated(fileAtStart[r].jobs, hoy[r])

PastEntriesStayAction ==
  \A k \in 1..(clock - 1) : Dated(file'.jobs, Days[k]) = Dated(file.jobs, Days[k])

OnlyTodayTouched ==
  /\ []OnlyTodayState
  /\ [][PastEntriesStayAction]_vars

\* A run of the second day published and removed a job, and an entry of the
\* first day with the same concept is still in the agenda.
PastEntryKeptSeen ==
  \E r \in Runs :
    /\ hoy[r] = Days[2] /\ pub[r] = "ok" /\ pc[r] = "Done"
    /\ \E i \in 1..Len(file.jobs) :
         file.jobs[i].date = Days[1] /\ file.jobs[i].concept = jobHoy[r].concept

\* The first entry of f dated d has an empty or non-sequence thread.
Blocked(f, d) == HasJobToday(f, d) /\ ~ValidJobToday(f, d)

\* C18: when the first agenda entry dated today has an empty or non-sequence
\* thread, every run of that date ends Errored and leaves the agenda as it
\* was, so that no run of that date publishes anything, a later valid entry of
\* the date included.
HeadOfLineBlocking ==
  \A r \in Runs : (pc[r] \notin {"Idle", "Searching"} /\ Blocked(fileAtStart[r], hoy[r])) =>
    /\ pc[r] = "Errored" /\ exit[r] > 0 /\ pub[r] = "none" /\ writes[r] = 0
    /\ \A q \in Runs : (q >= r /\ pc[q] # "Idle" /\ hoy[q] = hoy[r]) =>
         /\ fileAtStart[q] = fileAtStart[r]
         /\ pc[q] # "Searching" => (pc[q] = "Errored" /\ pub[q] = "none" /\ calls[q] = <<>>)
    /\ (\A q \in Runs : q > r => (pc[q] = "Idle" \/ hoy[q] = hoy[r])) => file = fileAtStart[r]

\* Two runs of one date ended Errored on the same first entry, and a valid
\* entry of that date comes after it in the agenda.
BlockedTwiceSeen ==
  \E r \in Runs :
    /\ r + 1 \in Runs
    /\ pc[r] = "Errored" /\ pc[r + 1] = "Errored"
    /\ hoy[r + 1] = hoy[r]
    /\ Len(file.jobs) >= 2
    /\ file.jobs[1] = jobHoy[r] /\ jobHoy[r + 1] = jobHoy[r]
    /\ file.jobs[2].date = hoy[r]
    /\ file.jobs[2].thread.kind = "seq" /\ file.jobs[2].thread.items # <<>>
====
